---- MODULE Spec2Model ----
(***************************************************************************)
(* Model of the risk engine of the oil trading system                      *)
(* (src/src/OilTrading.Api/Scripts/risk_engine.py): the RiskEngine class,  *)
(* its three calculations (GARCH VaR, Monte Carlo VaR, stress tests), the  *)
(* helpers they share, and the main entry point.                           *)
(*                                                                         *)
(* Numbers.  Python floats are modelled by exact integers and rationals:   *)
(* a fractional return is an integer number of 1/RetScale (percent), money *)
(* is an integer number of currency units, a weighted series is a sequence *)
(* of numerators over one common denominator.  np.round is round-half-to-  *)
(* even.  A float that is NaN is the record NaN; every other float is      *)
(* Num(v).  Square roots are integer square roots of the fixed-point       *)
(* value.                                                                  *)
(***************************************************************************)
EXTENDS Integers, Sequences, FiniteSets, TLC

VARIABLES
    positions,        \* the book handed to every call: a sequence of position dicts
    returns,          \* the returns map handed to every call: product -> series
    ARCH_AVAILABLE,   \* whether `from arch import arch_model` succeeded at import
    rng,              \* state of numpy's process-global generator (np.random)
    engines,          \* the RiskEngine instances of the process
    last              \* the most recent call and what it gave back to its caller

vars == <<positions, returns, ARCH_AVAILABLE, rng, engines, last>>

(***************************************************************************)
(* Bounds of the model.                                                    *)
(***************************************************************************)
MaxSims == 3          \* largest `simulations` argument tried
MaxCalls == 1         \* Monte Carlo calls recorded per engine instance

(***************************************************************************)
(* Program constants.                                                      *)
(***************************************************************************)
RetScale == 100       \* fixed-point unit of a fractional return: 1/100
GarchMinObs == 100    \* `if len(portfolio_returns) < 100`
DefaultSeed == 42     \* `seed: int = 42`

(***************************************************************************)
(* Arithmetic helpers.                                                     *)
(***************************************************************************)
Abs(x) == IF x < 0 THEN -x ELSE x

RECURSIVE GCD(_, _)
GCD(a, b) == IF b = 0 THEN a ELSE GCD(b, a % b)

RECURSIVE SqrtSearch(_, _, _)
SqrtSearch(x, lo, hi) ==
    IF lo >= hi THEN lo
    ELSE LET mid == (lo + hi + 1) \div 2
         IN IF mid <= x \div mid THEN SqrtSearch(x, mid, hi)
            ELSE SqrtSearch(x, lo, mid - 1)

\* np.sqrt of a non-negative fixed-point value, truncated
ISqrt(x) == IF x <= 0 THEN 0 ELSE SqrtSearch(x, 1, x)

\* np.round of the non-negative rational n/d: round half to even
RoundPos(n, d) ==
    LET q == n \div d
        r == n % d
    IN IF 2 * r < d THEN q
       ELSE IF 2 * r > d THEN q + 1
       ELSE IF q % 2 = 0 THEN q ELSE q + 1

\* np.round of the rational n/d (d > 0)
Round(n, d) == IF n < 0 THEN -RoundPos(-n, d) ELSE RoundPos(n, d)

RECURSIVE SumRange(_, _, _)
SumRange(s, lo, hi) ==
    IF lo > hi THEN 0
    ELSE IF lo = hi THEN s[lo]
    ELSE LET mid == (lo + hi) \div 2
         IN SumRange(s, lo, mid) + SumRange(s, mid + 1, hi)

\* sum(s), np.sum(s)
SumSeq(s) == SumRange(s, 1, Len(s))

RECURSIVE MinOfSet(_)
MinOfSet(S) ==
    LET x == CHOOSE y \in S : TRUE
    IN IF S = {x} THEN x
       ELSE LET m == MinOfSet(S \ {x}) IN IF x < m THEN x ELSE m

\* the list s, held as a list of values (the same sequence)
AsList(s) == SubSeq(s, 1, Len(s))

\* np.sort: ascending.  Element i goes to the place given by the number of
\* elements before it in the order (ties by index)
np_sort(s) ==
    LET a == AsList(s)
        n == Len(a)
        place == AsList([i \in 1..n |->
                    1 + Cardinality({j \in 1..n :
                                       a[j] < a[i] \/ (a[j] = a[i] /\ j < i)})])
    IN AsList([k \in 1..n |-> a[CHOOSE i \in 1..n : place[i] = k]])

(***************************************************************************)
(* Floats that may be NaN.                                                 *)
(***************************************************************************)
NaN == [nan |-> TRUE, v |-> 0]
Num(x) == [nan |-> FALSE, v |-> x]

(***************************************************************************)
(* What a call gives back: a {var95, var99} dict, or an exception.         *)
(***************************************************************************)
VarDict(v95, v99) ==
    [raised |-> FALSE, exc |-> "", var95 |-> v95, var99 |-> v99, stages |-> <<>>]
Raise(e) ==
    [raised |-> TRUE, exc |-> e, var95 |-> Num(0), var99 |-> Num(0), stages |-> <<>>]
\* the same outcome, with the stages the call went through (kept for the
\* claims about the order of the fallback chain; no caller sees it)
Staged(r, st) == [r EXCEPT !.stages = st]

(***************************************************************************)
(* Position dicts.  keys is the set of keys the dict holds: reading a key  *)
(* it lacks raises KeyError.                                               *)
(***************************************************************************)
AllKeys == {"product", "quantity", "lotSize", "currentPrice", "position"}

Position(prod, qty, lot, price, side) ==
    [product |-> prod, quantity |-> qty, lotSize |-> lot,
     currentPrice |-> price, position |-> side, keys |-> AllKeys]

Without(pos, k) == [pos EXCEPT !.keys = @ \ {k}]

\* abs(pos['quantity'] * pos['lotSize'] * pos['currentPrice'])
PositionValue(pos) == Abs(pos.quantity * pos.lotSize * pos.currentPrice)

ValueKeys == {"quantity", "lotSize", "currentPrice"}

_calculate_portfolio_value(ps) ==
    IF \E i \in 1..Len(ps) : ~(ValueKeys \subseteq ps[i].keys)
    THEN [raised |-> TRUE, v |-> 0]
    ELSE [raised |-> FALSE,
          v |-> SumSeq([i \in 1..Len(ps) |-> PositionValue(ps[i])])]

(***************************************************************************)
(* A weighted series: the floats num[t] / (den * RetScale).                *)
(***************************************************************************)
Series(d, n) == [raised |-> FALSE, den |-> d, num |-> AsList(n)]
SeriesRaised == [raised |-> TRUE, den |-> 1, num |-> <<>>]

\* min(len(r) for r in returns.values())
MinLength(rets) == MinOfSet({Len(rets[p]) : p \in DOMAIN rets})

\* the direction of the position ignored
ReturnSignIgnored(pos) == 1

\* `if pos['position'] == 'Short': position_returns = -position_returns`
ReturnSign(pos) == IF pos.position = "Short" THEN -1 ELSE 1

RECURSIVE WeightedSum(_, _, _)
\* the loop of _calculate_portfolio_returns at observation t, as the
\* numerator over total_value: sum of position_value * (+/-) returns[product][t]
WeightedSum(ps, rets, t) ==
    IF ps = <<>> THEN 0
    ELSE LET pos == Head(ps)
         IN (IF pos.product \in DOMAIN rets
             THEN PositionValue(pos) * ReturnSign(pos) * rets[pos.product][t]
             ELSE 0) + WeightedSum(Tail(ps), rets, t)

\* a position the loop of _calculate_portfolio_returns cannot read
ReturnsKeyError(ps, rets) ==
    \E i \in 1..Len(ps) :
        \/ "product" \notin ps[i].keys
        \/ ps[i].product \in DOMAIN rets /\ "position" \notin ps[i].keys

_calculate_portfolio_returns(ps, rets) ==
    IF DOMAIN rets = {} THEN Series(1, <<>>)
    ELSE LET min_length == MinLength(rets)
         IN IF min_length = 0 THEN Series(1, <<>>)
            ELSE LET total_value == _calculate_portfolio_value(ps)
                 IN IF total_value.raised THEN SeriesRaised
                    ELSE IF total_value.v = 0
                    THEN Series(1, [t \in 1..min_length |-> 0])
                    ELSE IF ReturnsKeyError(ps, rets) THEN SeriesRaised
                    ELSE Series(total_value.v,
                                [t \in 1..min_length |-> WeightedSum(ps, rets, t)])

\* the index of the 10% quantile instead of the 5% one
Var95IndexTenth(n) == (n * 10) \div 100

\* int(len(sorted_returns) * 0.05) and int(len(sorted_returns) * 0.01)
Var95Index(n) == (n * 5) \div 100
Var99Index(n) == (n * 1) \div 100

\* float(np.round(abs(x * portfolio_value))) for the float x = num / (den * RetScale)
RoundedLoss(num, den, portfolio_value) ==
    LET g == GCD(portfolio_value, den)
    IN IF g = 0 THEN 0
       ELSE RoundPos(Abs(num) * (portfolio_value \div g), (den \div g) * RetScale)

_historical_var(series, portfolio_value) ==
    IF Len(series.num) = 0 THEN VarDict(Num(0), Num(0))
    ELSE LET sorted_returns == np_sort(series.num)
             n == Len(sorted_returns)
         IN VarDict(
              Num(RoundedLoss(sorted_returns[Var95Index(n) + 1], series.den, portfolio_value)),
              Num(RoundedLoss(sorted_returns[Var99Index(n) + 1], series.den, portfolio_value)))

(***************************************************************************)
(* Parametric VaR.  A volatility is an integer number of percent           *)
(* (predicted_vol * 100); a quantile magnitude is an integer number of     *)
(* 1/QScale.                                                               *)
(***************************************************************************)
QScale == 100

\* |stats.norm.ppf(0.05)| = 1.645, |stats.norm.ppf(0.01)| = 2.326
NormQ95 == 164
NormQ99 == 233

\* |stats.t.ppf(0.05, nu)| and |stats.t.ppf(0.01, nu)| for the nu a fit may give
TQ95(nu) == IF nu = 3 THEN 235 ELSE IF nu = 5 THEN 202 ELSE 181
TQ99(nu) == IF nu = 3 THEN 454 ELSE IF nu = 5 THEN 336 ELSE 276

\* abs(q * predicted_vol * portfolio_value), then float(np.round(...))
ParametricLoss(q, vol, portfolio_value) ==
    RoundPos(q * vol * portfolio_value, QScale * RetScale)

(***************************************************************************)
(* The arch library is outside the repository: what model.fit and          *)
(* res.forecast give is an input of the call.  A fit either raises or      *)
(* gives a one-day volatility forecast and, for dist='t', the parameter    *)
(* nu (nu = 0: res.params has no 'nu').                                    *)
(***************************************************************************)
FitRaises == [ok |-> FALSE, vol |-> 0, nu |-> 0]
FitGives(vol, nu) == [ok |-> TRUE, vol |-> vol, nu |-> nu]
NoFit == FitRaises

RECURSIVE LambdaPow(_)
\* lambda_param ** i for lambda_param = 0.94, in 1/10000
LambdaPow(i) ==
    IF i = 0 THEN 10000
    ELSE IF i % 2 = 1 THEN (LambdaPow(i - 1) * 94) \div 100
    ELSE LET h == LambdaPow(i \div 2) IN (h * h) \div 10000

\* the weight (1 - lambda_param) * lambda_param ** i of _simplified_garch,
\* in 1/10000, before normalisation
EwmaWeight(i) == (6 * LambdaPow(i)) \div 100

\* np.sum(weights * squared_returns[::-1]) with weights / weights.sum(), then
\* np.sqrt: the volatility in percent
EwmaVolatility(series) ==
    LET n == Len(series.num)
        r == [t \in 1..n |-> Abs(series.num[t]) \div series.den]
        wsum == SumSeq([i \in 1..n |-> EwmaWeight(i - 1)])
        acc == SumSeq([i \in 1..n |-> EwmaWeight(i - 1) * r[n + 1 - i] * r[n + 1 - i]])
    IN ISqrt(acc \div wsum)

_simplified_garch(series, portfolio_value) ==
    LET volatility == EwmaVolatility(series)
    IN VarDict(Num(ParametricLoss(NormQ95, volatility, portfolio_value)),
               Num(ParametricLoss(NormQ99, volatility, portfolio_value)))

\* lines 50-68: the Student-t fit succeeded
StudentTVar(fit, portfolio_value) ==
    IF fit.nu # 0
    THEN VarDict(Num(ParametricLoss(TQ95(fit.nu), fit.vol, portfolio_value)),
                 Num(ParametricLoss(TQ99(fit.nu), fit.vol, portfolio_value)))
    ELSE VarDict(Num(ParametricLoss(NormQ95, fit.vol, portfolio_value)),
                 Num(ParametricLoss(NormQ99, fit.vol, portfolio_value)))

\* lines 70-81: the Normal refit succeeded
NormalVar(fit, portfolio_value) ==
    VarDict(Num(ParametricLoss(NormQ95, fit.vol, portfolio_value)),
            Num(ParametricLoss(NormQ99, fit.vol, portfolio_value)))

\* the threshold taken inclusively
TooShortInclusive(n) == n <= GarchMinObs

\* `if len(portfolio_returns) < 100`
TooShortForGarch(n) == n < GarchMinObs

\* the handler of calculate_garch_var (lines 92-95): it reads portfolio_returns
\* and portfolio_value, which are unbound when the try block raised before
\* assigning them
GarchHandler(bound, series, portfolio_value, st) ==
    IF bound THEN Staged(_historical_var(series, portfolio_value), st)
    ELSE Raise("UnboundLocalError")

calculate_garch_var(ps, rets, arch, fitT, fitN) ==
    LET portfolio_value == _calculate_portfolio_value(ps)
    IN IF portfolio_value.raised
       THEN GarchHandler(FALSE, SeriesRaised, 0, <<>>)
       ELSE
       LET portfolio_returns == _calculate_portfolio_returns(ps, rets)
           pv == portfolio_value.v
       IN IF portfolio_returns.raised
          THEN GarchHandler(FALSE, SeriesRaised, pv, <<>>)
          ELSE IF TooShortForGarch(Len(portfolio_returns.num))
          THEN Staged(_historical_var(portfolio_returns, pv), <<"historical">>)
          ELSE IF arch
          THEN IF fitT.ok
               THEN Staged(StudentTVar(fitT, pv), <<"fit_t">>)
               ELSE IF fitN.ok
               THEN Staged(NormalVar(fitN, pv), <<"fit_t", "fit_normal">>)
               ELSE GarchHandler(TRUE, portfolio_returns, pv,
                                 <<"fit_t", "fit_normal", "historical">>)
          ELSE Staged(_simplified_garch(portfolio_returns, pv), <<"ewma">>)

(***************************************************************************)
(* Stress tests.  A shock is an integer number of percent; an impact is an *)
(* integer number of 1/100 of a currency unit.                             *)
(***************************************************************************)
\* `multiplier = 1 if pos['position'] == 'Long' else -1`
StressMultiplier(pos) == IF pos.position = "Long" THEN 1 ELSE -1

\* the shocked price itself instead of the price change
ShockedPrice(current_price, shock) == current_price * (100 + shock)

\* price_change = current_price * (1 + shock_percentage) - current_price
PriceChange(current_price, shock) ==
    current_price * (100 + shock) - current_price * 100

RECURSIVE StressSum(_, _, _)
StressSum(ps, prices, shock) ==
    IF ps = <<>> THEN 0
    ELSE LET pos == Head(ps)
         IN (IF pos.product \in DOMAIN prices
             THEN PriceChange(prices[pos.product], shock)
                    * pos.quantity * pos.lotSize * StressMultiplier(pos)
             ELSE 0) + StressSum(Tail(ps), prices, shock)

\* a position the loop of _calculate_stress_impact cannot read
StressKeyError(ps, prices) ==
    \E i \in 1..Len(ps) :
        \/ "product" \notin ps[i].keys
        \/ /\ ps[i].product \in DOMAIN prices
           /\ ~({"position", "quantity", "lotSize"} \subseteq ps[i].keys)

_calculate_stress_impact(ps, prices, shock) ==
    IF StressKeyError(ps, prices) THEN [raised |-> TRUE, v |-> 0]
    ELSE [raised |-> FALSE, v |-> StressSum(ps, prices, shock)]

\* the three scenarios of run_stress_tests, in order
Scenarios == << [scenario |-> "-10% Shock", shock |-> -10],
                [scenario |-> "+10% Shock", shock |-> 10],
                [scenario |-> "Historical Worst", shock |-> -15] >>

run_stress_tests(ps, prices) ==
    IF StressKeyError(ps, prices) THEN [raised |-> TRUE, tests |-> <<>>]
    ELSE [raised |-> FALSE,
          tests |-> [k \in 1..Len(Scenarios) |->
                       [scenario |-> Scenarios[k].scenario,
                        pnlImpact |-> Round(_calculate_stress_impact(
                                               ps, prices, Scenarios[k].shock).v, 100)]]]

(***************************************************************************)
(* numpy's process-global generator.  np.random.seed(seed) sets its state  *)
(* from the seed alone; every standard-normal draw advances it and is a    *)
(* function of the state reached.  (MT19937 is abstracted to a 16-state    *)
(* full-period generator and a normal variate to an integer in -2..2.)     *)
(***************************************************************************)
SeedState(seed) == seed % 16

NextRng(g) == (5 * g + 3) % 16

RECURSIVE RngAfter(_, _)
RngAfter(g, k) == IF k = 0 THEN g ELSE RngAfter(NextRng(g), k - 1)

StdNormalTable == <<0, 1, -1, 2, -2, 1, -1, 0, 1, -1, 0, 2, -1, 1, -2, 0>>

\* the k-th standard normal drawn from state g (k >= 1)
Draw(g, k) == StdNormalTable[RngAfter(g, k) + 1]

(***************************************************************************)
(* Monte Carlo VaR.  Means, standard deviations and simulated returns are  *)
(* integer numbers of 1/RetScale; covariances of 1/RetScale^2.             *)
(***************************************************************************)
\* list(returns.keys()): the keys in insertion order
ProductOrder == <<"WTI", "BRENT">>
ProductList(rets) == SelectSeq(ProductOrder, LAMBDA p : p \in DOMAIN rets)

\* products.index(p)
IndexOf(products, p) == CHOOSE i \in 1..Len(products) : products[i] = p

\* np.mean(returns_matrix, axis=0)[i], for a column of length >= 1
Mean(xs) == SumSeq(xs) \div Len(xs)

\* np.cov(returns_matrix, rowvar=False)[i, j], for columns of length >= 2
Cov(xs, ys) ==
    LET mx == Mean(xs)
        my == Mean(ys)
    IN SumSeq([t \in 1..Len(xs) |-> (xs[t] - mx) * (ys[t] - my)]) \div (Len(xs) - 1)

\* np.percentile(sorted_pnl, q), linear interpolation between the two
\* neighbouring order statistics: the numerator over 100
Percentile(sorted, q) ==
    LET pos == (Len(sorted) - 1) * q
        lo == pos \div 100
        rem == pos % 100
    IN IF rem = 0 THEN sorted[lo + 1] * 100
       ELSE sorted[lo + 1] * 100 + rem * (sorted[lo + 2] - sorted[lo + 1])

\* lines 151-163: portfolio_sim_returns * portfolio_value -> sorted ->
\* percentiles -> abs -> round.  sim: the simulated portfolio returns, the
\* floats sim.num[k] / (sim.den * RetScale)
VarOfSimulated(sim, portfolio_value) ==
    LET g == GCD(portfolio_value, sim.den)
        scale == IF g = 0 THEN 0 ELSE portfolio_value \div g
        den == IF g = 0 THEN 1 ELSE sim.den \div g
        portfolio_pnl == [k \in 1..Len(sim.num) |-> sim.num[k] * scale]
        sorted_pnl == np_sort(portfolio_pnl)
    IN VarDict(Num(RoundPos(Abs(Percentile(sorted_pnl, 5)), 100 * den * RetScale)),
               Num(RoundPos(Abs(Percentile(sorted_pnl, 1)), 100 * den * RetScale)))

NoFactor == [ok |-> FALSE, l11 |-> 0, l21 |-> 0, l12 |-> 0, l22 |-> 0]

\* np.linalg.cholesky of the 2x2 matrix ((c11, c12), (c12, c22)): raises
\* LinAlgError on a non-positive pivot (the pivots are c11 and
\* c22 - c12^2 / c11, decided exactly); the factor's entries are truncated
Cholesky(c11, c12, c22) ==
    IF c11 <= 0 THEN NoFactor
    ELSE IF c11 * c22 - c12 * c12 <= 0 THEN NoFactor
    ELSE LET l11 == ISqrt(c11)
         IN [ok |-> TRUE, l11 |-> l11, l21 |-> c12 \div l11, l12 |-> 0,
             l22 |-> ISqrt((c11 * c22 - c12 * c12) \div c11)]

\* one column of eigenvectors @ diag(sqrt(eigenvalues)): the unit eigenvector
\* of eigenvalue ev (clipped at 0), scaled by sqrt(ev)
EigenColumn(c11, c12, c22, ev) ==
    LET vx == IF c12 # 0 THEN c12 ELSE IF Abs(ev - c11) <= Abs(ev - c22) THEN 1 ELSE 0
        vy == IF c12 # 0 THEN ev - c11 ELSE 1 - vx
        nrm == ISqrt(vx * vx + vy * vy)
        s == ISqrt(IF ev < 0 THEN 0 ELSE ev)
    IN IF nrm = 0 THEN <<0, 0>> ELSE <<(vx * s) \div nrm, (vy * s) \div nrm>>

\* lines 140-142: np.linalg.eig, np.maximum(eigenvalues, 0), the pseudo-factor.
\* first: which eigenvalue LAPACK lists first (the order is unspecified)
EigenFactor(c11, c12, c22, first) ==
    LET disc == ISqrt((c11 - c22) * (c11 - c22) + 4 * c12 * c12)
        hi == (c11 + c22 + disc) \div 2
        lo == (c11 + c22 - disc) \div 2
        a == EigenColumn(c11, c12, c22, IF first = "hi" THEN hi ELSE lo)
        b == EigenColumn(c11, c12, c22, IF first = "hi" THEN lo ELSE hi)
    IN [ok |-> TRUE, l11 |-> a[1], l21 |-> a[2], l12 |-> b[1], l22 |-> b[2]]

\* row k of mean_returns + random_normals @ L.T, drawn from state g
CorrelatedRow(m1, m2, L, g, k) ==
    LET z1 == Draw(g, 2 * k - 1)
        z2 == Draw(g, 2 * k)
    IN <<m1 + z1 * L.l11 + z2 * L.l12, m2 + z1 * L.l21 + z2 * L.l22>>

\* a position the loop of _aggregate_simulated_returns cannot read
AggregateKeyError(ps, products) ==
    \E i \in 1..Len(ps) :
        \/ "product" \notin ps[i].keys
        \/ /\ \E j \in 1..Len(products) : products[j] = ps[i].product
           /\ "position" \notin ps[i].keys

RECURSIVE AggregateRow(_, _, _)
\* the loop of _aggregate_simulated_returns for one simulated row, as the
\* numerator over total_value
AggregateRow(ps, products, row) ==
    IF ps = <<>> THEN 0
    ELSE LET pos == Head(ps)
         IN (IF \E j \in 1..Len(products) : products[j] = pos.product
             THEN (IF pos.position = "Short" THEN -1 ELSE 1)
                    * PositionValue(pos) * row[IndexOf(products, pos.product)]
             ELSE 0) + AggregateRow(Tail(ps), products, row)

\* _aggregate_simulated_returns: the portfolio-level simulated returns, the
\* floats num[k] / (den * RetScale).  nan: the simulated returns are all NaN.
\* (called only once _calculate_portfolio_value has succeeded on ps)
_aggregate_simulated_returns(ps, products, rows, nan) ==
    LET total_value == _calculate_portfolio_value(ps).v
        n == Len(rows)
    IN IF total_value = 0
       THEN [raised |-> FALSE, nan |-> FALSE, den |-> 1, num |-> [k \in 1..n |-> 0]]
       ELSE IF AggregateKeyError(ps, products)
       THEN [raised |-> TRUE, nan |-> FALSE, den |-> 1, num |-> <<>>]
       ELSE IF nan /\ \E i \in 1..Len(ps), j \in 1..Len(products) :
                          products[j] = ps[i].product
       THEN [raised |-> FALSE, nan |-> TRUE, den |-> 1, num |-> <<>>]
       ELSE [raised |-> FALSE, nan |-> FALSE, den |-> total_value,
             num |-> [k \in 1..n |-> AggregateRow(ps, products, rows[k])]]

\* the handler of calculate_monte_carlo_var (lines 165-169)
MonteCarloHandler(ps, rets, portfolio_value, st) ==
    LET portfolio_returns == _calculate_portfolio_returns(ps, rets)
    IN IF portfolio_returns.raised THEN Staged(Raise("KeyError"), st)
       ELSE IF portfolio_value.raised THEN Staged(Raise("UnboundLocalError"), st)
       ELSE Staged(_historical_var(portfolio_returns, portfolio_value.v),
                   st \o <<"historical">>)

\* lines 123-124: np.random.normal(mean_returns[0], std_dev, simulations),
\* for a column of two observations or more
SimulatedSingle(xs, simulations, g) ==
    LET mean == Mean(xs)
        std_dev == ISqrt(Cov(xs, xs))
    IN [k \in 1..simulations |-> mean + std_dev * Draw(g, k)]

\* lines 122-125: one product
SingleProduct(xs, simulations, portfolio_value, g) ==
    IF Len(xs) < 2
    THEN \* np.cov of fewer than two observations is NaN, and so is every draw
         Staged(VarDict(NaN, NaN), <<"single">>)
    ELSE LET simulated_returns == SimulatedSingle(xs, simulations, g)
         IN Staged(VarOfSimulated([den |-> 1, num |-> simulated_returns],
                                  portfolio_value), <<"single">>)

\* lines 135-137 and 146-148, then 151-163
AggregateAndExtract(ps, rets, products, rows, nan, portfolio_value, st) ==
    LET sim == _aggregate_simulated_returns(ps, products, rows, nan)
    IN IF sim.raised THEN MonteCarloHandler(ps, rets, portfolio_value, st)
       ELSE IF sim.nan THEN Staged(VarDict(NaN, NaN), st)
       ELSE Staged(VarOfSimulated(sim, portfolio_value.v), st)

\* lines 130 and 140-142: the factor L of the covariance of two columns of two
\* observations or more: Cholesky's, or on LinAlgError the eigenvalue one
Factor(xs, ys, lapack) ==
    LET c11 == Cov(xs, xs)
        c12 == Cov(xs, ys)
        c22 == Cov(ys, ys)
        chol == Cholesky(c11, c12, c22)
    IN IF chol.ok THEN [cholesky |-> TRUE, L |-> chol]
       ELSE [cholesky |-> FALSE, L |-> EigenFactor(c11, c12, c22, lapack.eigFirst)]

\* lines 131-132 and 143-144: correlated_returns
CorrelatedRows(xs, ys, L, simulations, g) ==
    [k \in 1..simulations |-> CorrelatedRow(Mean(xs), Mean(ys), L, g, k)]

\* lines 126-148: two products.  lapack: what the linear-algebra build does
\* where numpy leaves it open
TwoProducts(ps, rets, products, simulations, portfolio_value, g, lapack) ==
    LET n == MinLength(rets)
        xs == SubSeq(rets[products[1]], 1, n)
        ys == SubSeq(rets[products[2]], 1, n)
        zeros == [k \in 1..simulations |-> <<0, 0>>]
    IN IF n < 2
       THEN \* the covariance is NaN (or not a matrix): either both
            \* decompositions raise LinAlgError, or Cholesky gives a NaN factor
            IF lapack.nanCholesky = "raise"
            THEN [out |-> MonteCarloHandler(ps, rets, portfolio_value,
                                            <<"cholesky", "eigen">>),
                  draws |-> 0]
            ELSE [out |-> AggregateAndExtract(ps, rets, products, zeros, TRUE,
                                              portfolio_value, <<"cholesky">>),
                  draws |-> 2 * simulations]
       ELSE LET f == Factor(xs, ys, lapack)
                rows == CorrelatedRows(xs, ys, f.L, simulations, g)
            IN [out |-> AggregateAndExtract(ps, rets, products, rows, FALSE,
                          portfolio_value,
                          IF f.cholesky THEN <<"cholesky">> ELSE <<"cholesky", "eigen">>),
                draws |-> 2 * simulations]

\* gives the outcome of the call and the number of normals it drew
calculate_monte_carlo_var(ps, rets, simulations, g, lapack) ==
    LET portfolio_value == _calculate_portfolio_value(ps)
        products == ProductList(rets)
    IN IF portfolio_value.raised
       THEN [out |-> MonteCarloHandler(ps, rets, portfolio_value, <<>>), draws |-> 0]
       ELSE IF Len(products) = 0
       THEN [out |-> VarDict(Num(0), Num(0)), draws |-> 0]
       ELSE IF Len(products) = 1
       THEN [out |-> SingleProduct(SubSeq(rets[products[1]], 1, MinLength(rets)),
                                   simulations, portfolio_value.v, g),
             draws |-> simulations]
       ELSE TwoProducts(ps, rets, products, simulations, portfolio_value, g, lapack)

NoSimulation ==
    [made |-> FALSE, products |-> <<>>, rows |-> <<>>, den |-> 1, num |-> <<>>]

\* lines 121-148: what a call that reaches line 151 with numbers holds in
\* (correlated or simulated) instrument-level returns, one row per draw, and
\* in portfolio_sim_returns, the floats num[k] / (den * RetScale)
Simulation(ps, rets, simulations, g, lapack) ==
    LET products == ProductList(rets)
    IN IF _calculate_portfolio_value(ps).raised \/ Len(products) = 0
          \/ MinLength(rets) < 2
       THEN NoSimulation
       ELSE LET n == MinLength(rets)
                xs == SubSeq(rets[products[1]], 1, n)
            IN IF Len(products) = 1
               THEN LET simulated_returns == SimulatedSingle(xs, simulations, g)
                    IN [made |-> TRUE, products |-> products,
                        rows |-> [k \in 1..simulations |-> <<simulated_returns[k]>>],
                        den |-> 1, num |-> AsList(simulated_returns)]
               ELSE LET ys == SubSeq(rets[products[2]], 1, n)
                        rows == CorrelatedRows(xs, ys, Factor(xs, ys, lapack).L,
                                               simulations, g)
                        sim == _aggregate_simulated_returns(ps, products, rows, FALSE)
                    IN IF sim.raised THEN NoSimulation
                       ELSE [made |-> TRUE, products |-> products,
                             rows |-> AsList(rows), den |-> sim.den,
                             num |-> AsList(sim.num)]

(***************************************************************************)
(* main(): one request read from stdin, one JSON document printed, an exit *)
(* status.  A response is the set of keys of the printed dict with the     *)
(* values of the VaR keys and of stress_tests.                             *)
(***************************************************************************)
Response(ks, v95, v99, ts, status) ==
    [keys |-> ks, var95 |-> v95, var99 |-> v99, stress_tests |-> ts, exit |-> status]

\* lines 367-374: the handler of main
ErrorResponse == Response({"error", "var95", "var99"}, Num(0), Num(0), <<>>, 1)

\* lines 354-365: dispatch on method, print the result
\* gives the response and the number of normals drawn
Dispatch(method, ps, rets, prices, simulations, arch, g, fitT, fitN, lapack) ==
    IF method = "garch"
    THEN LET r == calculate_garch_var(ps, rets, arch, fitT, fitN)
         IN [response |-> IF r.raised THEN ErrorResponse
                          ELSE Response({"var95", "var99"}, r.var95, r.var99, <<>>, 0),
             draws |-> 0]
    ELSE IF method = "montecarlo"
    THEN LET r == calculate_monte_carlo_var(ps, rets, simulations, g, lapack)
         IN [response |-> IF r.out.raised THEN ErrorResponse
                          ELSE Response({"var95", "var99"}, r.out.var95, r.out.var99,
                                        <<>>, 0),
             draws |-> r.draws]
    ELSE IF method = "stress"
    THEN LET r == run_stress_tests(ps, prices)
         IN [response |-> IF r.raised THEN ErrorResponse
                          ELSE Response({"stress_tests"}, Num(0), Num(0), r.tests, 0),
             draws |-> 0]
    ELSE [response |-> Response({"error"}, Num(0), Num(0), <<>>, 0), draws |-> 0]

(***************************************************************************)
(* Inputs.                                                                 *)
(***************************************************************************)
\* a return series of n observations, in percent
GenSeries(n, lo, stride) == [i \in 1..n |-> lo + ((i * stride) % 13)]

SeriesLens == {1, 3, 20, GarchMinObs}

\* mixed signs; every return positive; constant
SingleSeries ==
    {<<>>}
    \cup {GenSeries(n, -8, 5) : n \in SeriesLens}
    \cup {GenSeries(n, 1, 5) : n \in {3, 20}}
    \cup {GenSeries(3, 1, 0)}

PairedSeries ==
    { <<GenSeries(3, -8, 5), GenSeries(3, -8, 7)>>,
      <<GenSeries(3, -8, 5), GenSeries(3, -8, 5)>>,
      <<GenSeries(3, -8, 5), <<>> >>,
      <<GenSeries(1, -8, 5), GenSeries(3, -8, 7)>>,
      <<GenSeries(GarchMinObs, -8, 5), GenSeries(GarchMinObs + 20, 1, 7)>>,
      <<GenSeries(GarchMinObs, -8, 5), GenSeries(GarchMinObs - 1, 1, 7)>> }

ReturnsInputs ==
    {<<>>}
    \cup {[p \in {"WTI"} |-> s] : s \in SingleSeries}
    \cup {("WTI" :> st[1]) @@ ("BRENT" :> st[2]) : st \in PairedSeries}

Books ==
    { <<>>,
      << Position("WTI", 1000, 1, 85, "Long") >>,
      << Position("WTI", 10, 10, 85, "Short") >>,
      << Position("WTI", 10, 10, 85, "Long"), Position("BRENT", 5, 10, 90, "Short") >>,
      << Position("WTI", 10, 1, 0, "Long") >>,
      << Position("GASOIL", 10, 10, 70, "Long") >>,
      << Position("WTI", 10, 10, 85, "Buy") >>,
      << Without(Position("WTI", 10, 10, 85, "Long"), "quantity") >>,
      << Without(Position("WTI", 10, 10, 85, "Long"), "position") >> }

PriceMaps ==
    { <<>>, [p \in {"WTI"} |-> 85], ("WTI" :> 85) @@ ("BRENT" :> 90) }

Shocks == {-15, -10, 10, 20}

Seeds == {DefaultSeed, 7}

SimCounts == {1, MaxSims}

PortfolioValues == {0, 50}

\* what the arch library does on the Student-t fit and on the Normal refit
FitScripts ==
    { <<FitGives(2, 5), NoFit>>, <<FitGives(1, 3), NoFit>>, <<FitGives(2, 0), NoFit>>,
      <<FitGives(0, 5), NoFit>>, <<FitRaises, FitGives(2, 0)>>, <<FitRaises, FitRaises>> }

Lapacks == [nanCholesky : {"raise", "nan"}, eigFirst : {"hi", "lo"}]
NoLapack == [nanCholesky |-> "raise", eigFirst |-> "hi"]

\* the requests main may read from stdin
Request(m, sd, n, pm) ==
    [wellFormed |-> TRUE, method |-> m, seed |-> sd, simulations |-> n,
     current_prices |-> pm]

Requests ==
    { [Request("garch", DefaultSeed, MaxSims, <<>>) EXCEPT !.wellFormed = FALSE],
      Request("garch", DefaultSeed, MaxSims, <<>>),
      Request("var", DefaultSeed, MaxSims, <<>>) }
    \cup {Request("montecarlo", sd, n, <<>>) : sd \in Seeds, n \in SimCounts}
    \cup {Request("stress", DefaultSeed, MaxSims, pm) : pm \in PriceMaps}

(***************************************************************************)
(* State.                                                                  *)
(***************************************************************************)
NoOutcome == VarDict(Num(0), Num(0))
NoResponse == Response({}, Num(0), Num(0), <<>>, 0)

NoCall ==
    [op |-> "none", engine |-> 0, out |-> NoOutcome, simulations |-> 0,
     prices |-> <<>>, shock |-> 0, impact |-> [raised |-> FALSE, v |-> 0],
     stress |-> [raised |-> FALSE, tests |-> <<>>],
     series |-> <<>>, value |-> 0, fits |-> <<NoFit, NoFit>>,
     portfolio |-> Series(1, <<>>), sim |-> NoSimulation,
     request |-> Request("", 0, 0, <<>>),
     response |-> NoResponse]

NewEngine == [constructed |-> FALSE, seed |-> 0, ncalls |-> 0, mc |-> <<>>]

InitWith(ids, books, rets) ==
    /\ positions \in books
    /\ returns \in rets
    /\ ARCH_AVAILABLE \in BOOLEAN
    /\ rng = 0
    /\ engines = [e \in ids |-> NewEngine]
    /\ last = NoCall

\* a process that creates one engine
Init == InitWith({1}, Books, ReturnsInputs)

\* a process that creates two engines, on inputs with one instrument
SharedBooks ==
    { << Position("WTI", 1000, 1, 85, "Long") >>,
      << Position("WTI", 10, 10, 85, "Short") >> }
SharedReturns ==
    {[p \in {"WTI"} |-> s] : s \in {GenSeries(3, -8, 5), GenSeries(20, 1, 5)}}
InitTwoEngines == InitWith({1, 2}, SharedBooks, SharedReturns)

\* main has not run: once it has, the process has exited
Running == last.op # "main"

\* engine e exists and may take one more call
Callable(e) ==
    /\ Running
    /\ engines[e].constructed
    /\ engines[e].ncalls < MaxCalls

Called(e) == [engines EXCEPT ![e].ncalls = @ + 1]

\* RiskEngine.__init__: np.random.seed(seed); self.seed = seed
Construct(e, seed) ==
    /\ Running
    /\ ~engines[e].constructed
    /\ rng' = SeedState(seed)
    /\ engines' = [engines EXCEPT ![e] = [NewEngine EXCEPT !.constructed = TRUE,
                                                           !.seed = seed]]
    /\ UNCHANGED <<positions, returns, ARCH_AVAILABLE, last>>

Garch(e, fits) ==
    /\ Callable(e)
    /\ engines' = Called(e)
    /\ last' = [NoCall EXCEPT !.op = "garch", !.engine = e, !.fits = fits,
                   !.out = calculate_garch_var(positions, returns, ARCH_AVAILABLE,
                                               fits[1], fits[2])]
    /\ UNCHANGED <<positions, returns, ARCH_AVAILABLE, rng>>

MonteCarlo(e, simulations, lapack) ==
    /\ Callable(e)
    /\ LET r == calculate_monte_carlo_var(positions, returns, simulations, rng, lapack)
       IN /\ rng' = RngAfter(rng, r.draws)
          /\ engines' = [engines EXCEPT ![e].ncalls = @ + 1,
                            ![e].mc = Append(@, [simulations |-> simulations,
                                                 out |-> r.out])]
          /\ last' = [NoCall EXCEPT !.op = "montecarlo", !.engine = e, !.out = r.out,
                         !.simulations = simulations,
                         !.sim = Simulation(positions, returns, simulations, rng,
                                            lapack)]
    /\ UNCHANGED <<positions, returns, ARCH_AVAILABLE>>

RunStressTests(e, prices) ==
    /\ Callable(e)
    /\ engines' = Called(e)
    /\ last' = [NoCall EXCEPT !.op = "stress", !.engine = e, !.prices = prices,
                   !.stress = run_stress_tests(positions, prices)]
    /\ UNCHANGED <<positions, returns, ARCH_AVAILABLE, rng>>

StressImpact(e, prices, shock) ==
    /\ Callable(e)
    /\ engines' = Called(e)
    /\ last' = [NoCall EXCEPT !.op = "impact", !.engine = e, !.prices = prices,
                   !.shock = shock,
                   !.impact = _calculate_stress_impact(positions, prices, shock)]
    /\ UNCHANGED <<positions, returns, ARCH_AVAILABLE, rng>>

HistoricalVar(e, p, value) ==
    /\ Callable(e)
    /\ p \in DOMAIN returns
    /\ engines' = Called(e)
    /\ last' = [NoCall EXCEPT !.op = "historical", !.engine = e,
                   !.series = returns[p], !.value = value,
                   !.out = _historical_var(Series(1, returns[p]), value)]
    /\ UNCHANGED <<positions, returns, ARCH_AVAILABLE, rng>>

PortfolioReturns(e) ==
    /\ Callable(e)
    /\ engines' = Called(e)
    /\ last' = [NoCall EXCEPT !.op = "portfolio_returns", !.engine = e,
                   !.portfolio = _calculate_portfolio_returns(positions, returns)]
    /\ UNCHANGED <<positions, returns, ARCH_AVAILABLE, rng>>

\* main(): json.loads, RiskEngine(seed=seed), dispatch, print, exit status.
\* It runs as the script's only statement, in a process that has done nothing
\* else, and the process ends with it.
Main(req, fits, lapack) ==
    /\ last.op = "none"
    /\ \A e \in DOMAIN engines : ~engines[e].constructed
    /\ IF ~req.wellFormed
       THEN /\ last' = [NoCall EXCEPT !.op = "main", !.request = req,
                           !.response = ErrorResponse]
            /\ UNCHANGED rng
       ELSE LET r == Dispatch(req.method, positions, returns, req.current_prices,
                              req.simulations, ARCH_AVAILABLE, SeedState(req.seed),
                              fits[1], fits[2], lapack)
            IN /\ rng' = RngAfter(SeedState(req.seed), r.draws)
               /\ last' = [NoCall EXCEPT !.op = "main", !.request = req,
                              !.response = r.response]
    /\ UNCHANGED <<positions, returns, ARCH_AVAILABLE, engines>>

\* the environment's choices that a call can observe
FitChoices == IF ARCH_AVAILABLE THEN FitScripts ELSE {<<NoFit, NoFit>>}
LapackChoices == IF Cardinality(DOMAIN returns) > 1 THEN Lapacks ELSE {NoLapack}

Next ==
    \/ \E e \in DOMAIN engines, seed \in Seeds : Construct(e, seed)
    \/ \E e \in DOMAIN engines, fits \in FitChoices : Garch(e, fits)
    \/ \E e \in DOMAIN engines, simulations \in SimCounts, lapack \in LapackChoices :
          MonteCarlo(e, simulations, lapack)
    \/ \E e \in DOMAIN engines, prices \in PriceMaps : RunStressTests(e, prices)
    \/ \E e \in DOMAIN engines, prices \in PriceMaps, shock \in Shocks :
          StressImpact(e, prices, shock)
    \/ \E e \in DOMAIN engines, p \in {"WTI", "BRENT"}, value \in PortfolioValues :
          HistoricalVar(e, p, value)
    \/ \E e \in DOMAIN engines : PortfolioReturns(e)
    \/ \E req \in Requests, fits \in FitChoices, lapack \in LapackChoices :
          Main(req, fits, lapack)

Spec == Init /\ [][Next]_vars

SpecTwoEngines == InitTwoEngines /\ [][Next]_vars

(***************************************************************************)
(* Properties.                                                             *)
(***************************************************************************)
Outcome == last.out
SeqRange(q) == {q[i] : i \in 1..Len(q)}
IsVarCall == last.op \in {"garch", "montecarlo"}
ZeroResult == ~Outcome.raised /\ Outcome.var95 = Num(0) /\ Outcome.var99 = Num(0)
\* the result is a pair of numbers (the not-a-number results are C8's)
IsNumber == ~Outcome.var95.nan /\ ~Outcome.var99.nan
WellFormed == \A i \in 1..Len(positions) : positions[i].keys = AllKeys

\* the paths of calculate_garch_var whose result the source alone determines
\* (the arch library's fit is an input of the model)
NoLibraryFit == last.op = "garch" => "fit_t" \notin SeqRange(Outcome.stages)

\* C1: calculate_garch_var and calculate_monte_carlo_var never raise to the
\* caller: on every input, positions lacking a field included, they return a
\* dictionary with var95 and var99.
C1_NeverRaises == IsVarCall => ~Outcome.raised

\* C2: whenever a VaR result is a pair of numbers (from _historical_var, from
\* calculate_garch_var or from calculate_monte_carlo_var), var99 >= var95.
C2_Var99AtLeastVar95 ==
    ( /\ last.op \in {"historical", "garch", "montecarlo"}
      /\ ~Outcome.raised
      /\ IsNumber )
    => Outcome.var99.v >= Outcome.var95.v

\* every position has |quantity * lotSize * currentPrice| = 0 (or there is none)
ZeroExposure ==
    /\ WellFormed
    /\ \A i \in 1..Len(positions) : PositionValue(positions[i]) = 0

\* C3: with no positions, or with positions of zero exposure only, both VaR
\* methods return var95 = var99 = 0 and every stress scenario has pnlImpact 0,
\* whatever the returns and the current prices are.
C3_ZeroExposureGivesZero ==
    ZeroExposure =>
        /\ (IsVarCall /\ IsNumber) => ZeroResult
        /\ last.op = "stress" =>
              /\ ~last.stress.raised
              /\ \A k \in 1..Len(last.stress.tests) :
                    last.stress.tests[k].pnlImpact = 0

\* C4: two engines constructed with the same seed, given the same inputs and
\* the same Monte Carlo calls, return the same Monte Carlo results.
C4_SameSeedSameResults ==
    \A a, b \in DOMAIN engines :
        ( /\ engines[a].constructed
          /\ engines[b].constructed
          /\ engines[a].seed = engines[b].seed )
        => \A k \in 1..Len(engines[a].mc) :
              ( /\ k <= Len(engines[b].mc)
                /\ \A j \in 1..k :
                      engines[a].mc[j].simulations = engines[b].mc[j].simulations )
              => engines[a].mc[k].out = engines[b].mc[k].out

\* C5: every error response of main has the keys error, var95 and var99, with
\* var95 = var99 = 0, and the process exits with a non-zero status; an unknown
\* method is such an error.
C5_ErrorResponseShape ==
    (last.op = "main" /\ "error" \in last.response.keys)
    => /\ last.response.keys = {"error", "var95", "var99"}
       /\ last.response.var95 = Num(0)
       /\ last.response.var99 = Num(0)
       /\ last.response.exit # 0

\* the returns map is empty, or no position's product is a key of it
NoMatchingReturns ==
    /\ WellFormed
    /\ \A i \in 1..Len(positions) : positions[i].product \notin DOMAIN returns

\* C6: when the returns map is empty or holds no product of any position,
\* both VaR methods return var95 = var99 = 0.
C6_MissingReturnsGiveZero ==
    (IsVarCall /\ NoLibraryFit /\ IsNumber /\ NoMatchingReturns) => ZeroResult

\* sum over the positions that have a price of price * s * quantity * lotSize,
\* signed + for Long and - otherwise; s in percent, the sum in 1/100 currency
ImpactClosedForm(prices, s) ==
    SumSeq([i \in 1..Len(positions) |->
              IF positions[i].product \in DOMAIN prices
              THEN prices[positions[i].product] * s * positions[i].quantity
                     * positions[i].lotSize
                     * (IF positions[i].position = "Long" THEN 1 ELSE -1)
              ELSE 0])

ExampleBook == << Position("WTI", 1000, 1, 85, "Long") >>

C8_NonNegativeWhole ==
    (IsVarCall /\ ~Outcome.raised)
    => /\ ~Outcome.var95.nan /\ Outcome.var95.v >= 0
       /\ ~Outcome.var99.nan /\ Outcome.var99.v >= 0

\* the number of observations of the weighted return series
Observations ==
    IF DOMAIN returns = {} THEN 0
    ELSE CHOOSE n \in {Len(returns[p]) : p \in DOMAIN returns} :
            \A p \in DOMAIN returns : n <= Len(returns[p])

\* C9: calculate_garch_var tries its stages in a fixed order and the first
\* that succeeds gives the result: under 100 observations, historical
\* simulation directly; otherwise with the arch library the Student-t fit,
\* then the Normal refit only if the Student-t stage failed, then historical
\* simulation only if both failed; without the library, the EWMA estimate.
C9_GarchStageOrder ==
    (last.op = "garch" /\ ~Outcome.raised) =>
        LET st == Outcome.stages
            fitT == last.fits[1]
            fitN == last.fits[2]
        IN IF Observations < 100 THEN st = <<"historical">>
           ELSE IF ~ARCH_AVAILABLE THEN st = <<"ewma">>
           ELSE /\ fitT.ok => st = <<"fit_t">>
                /\ (~fitT.ok /\ fitN.ok) => st = <<"fit_t", "fit_normal">>
                /\ (~fitT.ok /\ ~fitN.ok)
                      => st = <<"fit_t", "fit_normal", "historical">>

\* both fits failed on a series of 100 observations or more, and historical
\* simulation gave the result
C9_Witness ==
    /\ last.op = "garch"
    /\ ~Outcome.raised
    /\ Observations >= 100
    /\ Outcome.stages = <<"fit_t", "fit_normal", "historical">>
    /\ Outcome.var95.v > 0

\* the element of s with at most k elements below it and more than k elements
\* at or below it: the k-th (from 0) in ascending order
OrderStatistic(s, k) ==
    CHOOSE x \in SeqRange(s) :
        /\ Cardinality({i \in 1..Len(s) : s[i] < x}) <= k
        /\ Cardinality({i \in 1..Len(s) : s[i] <= x}) > k

\* var is |x| * value / RetScale up to the rounding to a whole unit
WithinRounding(var, x, value) ==
    2 * Abs(var * RetScale - Abs(x) * value) <= RetScale

Exposure(i) ==
    Abs(positions[i].quantity * positions[i].lotSize * positions[i].currentPrice)
TotalExposure == SumSeq([i \in 1..Len(positions) |-> Exposure(i)])

\* -1 for Short, +1 otherwise
VarSign(i) == IF positions[i].position = "Short" THEN -1 ELSE 1

\* sum over the positions whose product is in returns of
\* exposure * sign * returns[product][t]
WeightedReturn(t) ==
    SumSeq([i \in 1..Len(positions) |->
              IF positions[i].product \in DOMAIN returns
              THEN Exposure(i) * VarSign(i) * returns[positions[i].product][t]
              ELSE 0])

\* a / b = c / d for b, d > 0, compared in lowest terms
SameRatio(a, b, c, d) ==
    LET g == GCD(Abs(a), b)
        h == GCD(Abs(c), d)
    IN a \div g = c \div h /\ b \div g = d \div h

\* C11: _calculate_portfolio_returns returns a series as long as the shortest
\* series in returns (instruments not held included): empty when returns is
\* empty, all zeros when the total portfolio value is zero, and otherwise
\* element t is the sum over the positions whose product is in returns of
\* weight * sign * returns[product][t], with weight = exposure / total and
\* sign = -1 for Short, +1 otherwise; absent products add nothing.
C11_PortfolioReturns ==
    (last.op = "portfolio_returns" /\ ~last.portfolio.raised) =>
        LET r == last.portfolio
            n == Len(r.num)
        IN /\ n = Observations
           /\ DOMAIN returns = {} => r.num = <<>>
           /\ (n > 0 /\ TotalExposure = 0) => \A t \in 1..n : r.num[t] = 0
           /\ (n > 0 /\ TotalExposure > 0) =>
                 \A t \in 1..n :
                    SameRatio(r.num[t], r.den, WeightedReturn(t), TotalExposure)

\* a long and a short position on two instruments whose series differ in
\* length: the result stops at the shorter one and is not all zeros
C11_Witness ==
    /\ last.op = "portfolio_returns"
    /\ ~last.portfolio.raised
    /\ \E p \in DOMAIN returns : Len(returns[p]) > Len(last.portfolio.num)
    /\ \E i \in 1..Len(positions) :
          positions[i].product \in DOMAIN returns /\ positions[i].position = "Short"
    /\ \E t \in 1..Len(last.portfolio.num) : last.portfolio.num[t] # 0

\* sum over the positions whose product was simulated of
\* exposure * sign * (simulated return of the product in draw k)
WeightedSimulated(k) ==
    LET sim == last.sim
    IN SumSeq([i \in 1..Len(positions) |->
                 IF \E j \in 1..Len(sim.products) : sim.products[j] = positions[i].product
                 THEN LET j == CHOOSE j \in 1..Len(sim.products) :
                                  sim.products[j] = positions[i].product
                      IN Exposure(i) * VarSign(i) * sim.rows[k][j]
                 ELSE 0])

\* C12: in calculate_monte_carlo_var the portfolio-level simulated return of
\* each draw is the sum over the positions whose product was simulated of
\* weight * sign * simulated return of the product (weight = exposure / total
\* value, sign = -1 for Short, +1 otherwise); instruments not held add
\* nothing.  This holds with one instrument as with several.
C12_SimulatedAggregation ==
    ( /\ last.op = "montecarlo"
      /\ last.sim.made
      /\ WellFormed
      /\ TotalExposure > 0 )
    => \A k \in 1..Len(last.sim.num) :
          SameRatio(last.sim.num[k], last.sim.den, WeightedSimulated(k), TotalExposure)

\* C13: with several instruments, when the Cholesky decomposition of the
\* covariance matrix fails the call does not raise: the eigenvalue factor
\* (negative eigenvalues clipped to zero) takes the place of L, the same
\* aggregation and percentile steps run and var95, var99 are finite and
\* non-negative; when the eigenvalue path fails too the call ends in the
\* historical fallback, not in an exception.
C13_CholeskyFallback ==
    ( /\ last.op = "montecarlo"
      /\ "eigen" \in SeqRange(Outcome.stages) )
    => /\ ~Outcome.raised
       /\ IsNumber
       /\ Outcome.var95.v >= 0
       /\ Outcome.var99.v >= 0
       /\ IF Observations < 2
          THEN Outcome.stages = <<"cholesky", "eigen", "historical">>
          ELSE /\ Outcome.stages = <<"cholesky", "eigen">>
               /\ last.sim.made
               /\ Len(last.sim.num) = last.simulations
               /\ TotalExposure > 0 =>
                     \A k \in 1..Len(last.sim.num) :
                        SameRatio(last.sim.num[k], last.sim.den,
                                  WeightedSimulated(k), TotalExposure)

\* C14: every operation reads the direction of a position the same way: the
\* sign _calculate_portfolio_returns and _aggregate_simulated_returns apply
\* to a position is the sign _calculate_stress_impact applies to it (a
\* position that gains on a rising price for VaR gains on a rising price for
\* stress), whatever its direction field holds.
C14_DirectionConsistent ==
    ( /\ last.op = "impact"
      /\ ~last.impact.raised
      /\ Len(positions) = 1
      /\ WellFormed
      /\ Exposure(1) > 0
      /\ positions[1].product \in DOMAIN last.prices )
    => LET product == positions[1].product
           rise == [p \in {product} |-> <<1>>]
           weighted == _calculate_portfolio_returns(positions, rise).num[1]
           aggregated == AggregateRow(positions, <<product>>, <<1>>)
           gainsInStress == last.impact.v * last.shock > 0
       IN /\ gainsInStress = (weighted > 0)
          /\ gainsInStress = (aggregated > 0)

====
